---- MODULE Spec2Model ----
(***************************************************************************)
(* Model of SudokLite: sd::sudoku_solver (src/sudok_solver.hpp) and its C  *)
(* entry point.                                                            *)
(*                                                                         *)
(* Encoding.  A std::uint16_t bitmask is modelled as the set of positions  *)
(* of its set bits: bit 0 is the confirmed flag, bits 1..9 the candidate   *)
(* digits.  x | y is \cup, x & y is \cap, x & ~y is \, x == 0 is x = {},   *)
(* and (x & (x - 1)) == 0 is Cardinality(x) <= 1.  A Board is a function   *)
(* from the cell index 0..80 (row-major) to such a state.                  *)
(***************************************************************************)
EXTENDS Integers, Sequences, FiniteSets, TLC

(***************************************************************************)
(* Inputs.  A puzzle is a solved grid from which the first k cells of its   *)
(* dig order are blanked and in which one cell is then overwritten with    *)
(* any int8_t value around the digit range, or the board with no given at  *)
(* all.  The declared length ranges around 81.                             *)
(***************************************************************************)
MaxDig == 13
SizeSlack == 1

Grid1 ==
  << 5,3,4, 6,7,8, 9,1,2,
     6,7,2, 1,9,5, 3,4,8,
     1,9,8, 3,4,2, 5,6,7,
     8,5,9, 7,6,1, 4,2,3,
     4,2,6, 8,5,3, 7,9,1,
     7,1,3, 9,2,4, 8,5,6,
     9,6,1, 5,3,7, 2,8,4,
     2,8,7, 4,1,9, 6,3,5,
     3,4,5, 2,8,6, 1,7,9 >>

Grid2 ==
  << 1,2,3, 4,5,6, 7,8,9,
     4,5,6, 7,8,9, 1,2,3,
     7,8,9, 1,2,3, 4,5,6,
     2,3,1, 6,7,4, 8,9,5,
     8,7,5, 9,1,2, 3,6,4,
     6,9,4, 5,3,8, 2,1,7,
     3,1,7, 2,6,5, 9,4,8,
     5,4,2, 8,9,7, 6,3,1,
     9,6,8, 3,4,1, 5,7,2 >>

Grids == << Grid1, Grid2 >>

DigOrders ==
  << << 1, 45, 10, 7, 46, 18, 9, 12, 25, 3, 40, 80, 60, 20, 30 >>,
     << 24, 75, 5, 12, 77, 9, 18, 6, 3, 23, 0, 21, 40, 80, 60 >> >>

CorruptCells == {1}
CorruptVals == -1 .. 10

Cells == 0 .. 80

Dig(d, k) ==
  [i \in Cells |-> IF \E j \in 1 .. k : DigOrders[d][j] = i THEN 0 ELSE Grids[d][i + 1]]

\* The board with all 81 cells empty.
Blank == [i \in Cells |-> 0]

Inputs ==
  { [Dig(d, k) EXCEPT ![p] = v] :
      d \in 1 .. Len(Grids), k \in 0 .. MaxDig, p \in CorruptCells, v \in CorruptVals }
    \cup {Blank}

Sizes == (81 - SizeSlack) .. (81 + SizeSlack)

(***************************************************************************)
(* SudokuCell                                                              *)
(***************************************************************************)
CandidateBits == 1 .. 9

isConfirmed(state) == 0 \in state

possibleMask(state) == state \cap CandidateBits

isValid(state) ==
  LET mask == possibleMask(state)
  IN  IF state = {} THEN FALSE
      ELSE IF state = {0} THEN FALSE
      ELSE IF isConfirmed(state) /\ Cardinality(mask) > 1 THEN FALSE
      ELSE TRUE

\* -1 unless x is a power of two; otherwise the position of its only bit.
get_power_of_two_runtime(x) ==
  IF x = {} \/ Cardinality(x) > 1 THEN -1
  ELSE CHOOSE n \in x : TRUE

\* Variant: the bit position read as a 0-based digit.
getConfirmedValue_zero_based(state) ==
  IF ~isConfirmed(state) THEN 0
  ELSE LET mask == possibleMask(state)
       IN  IF Cardinality(mask) > 1 THEN 0
           ELSE get_power_of_two_runtime(mask) - 1

getConfirmedValue(state) ==
  IF ~isConfirmed(state) THEN 0
  ELSE LET mask == possibleMask(state)
       IN  IF Cardinality(mask) > 1 THEN 0
           ELSE get_power_of_two_runtime(mask)

(***************************************************************************)
(* Board: the three group views, as the 9 cell indices in source order.    *)
(***************************************************************************)
at(r, c) == r * 9 + c

get_row(r) == [k \in 1 .. 9 |-> at(r, k - 1)]

get_col(c) == [k \in 1 .. 9 |-> at(k - 1, c)]

get_box(b) ==
  LET sr == (b \div 3) * 3
      sc == (b % 3) * 3
  IN  [k \in 1 .. 9 |-> at(sr + ((k - 1) \div 3), sc + ((k - 1) % 3))]

(***************************************************************************)
(* Board::deduce_group.  The result carries the board as the call leaves   *)
(* it, the returned bool, and `empty`: whether the call left through       *)
(* `if (mask == 0) return false`.                                          *)
(***************************************************************************)
confirmedMaskOf(cells, group) ==
  {0} \cup UNION { possibleMask(cells[group[k]]) :
                     k \in { j \in 1 .. 9 : isConfirmed(cells[group[j]]) } }

\* Variant: the emptied mask is stored in the cell before the early return.
RECURSIVE deduce_group_loop_store_empty(_, _, _, _, _)
deduce_group_loop_store_empty(cells, group, k, confirmedMask, changed) ==
  IF k > 9 THEN [cells |-> cells, changed |-> changed, empty |-> FALSE]
  ELSE
    LET c  == group[k]
        st == cells[c]
    IN  IF isConfirmed(st)
        THEN deduce_group_loop_store_empty(cells, group, k + 1, confirmedMask, changed)
        ELSE
          LET mask == possibleMask(st) \ confirmedMask
          IN  IF mask = {}
              THEN [cells |-> [cells EXCEPT ![c] = mask], changed |-> FALSE, empty |-> TRUE]
              ELSE IF Cardinality(mask) <= 1
              THEN deduce_group_loop_store_empty([cells EXCEPT ![c] = mask \cup {0}], group,
                                                 k + 1, confirmedMask \cup mask, TRUE)
              ELSE IF mask # possibleMask(st)
              THEN deduce_group_loop_store_empty([cells EXCEPT ![c] = mask], group,
                                                 k + 1, confirmedMask, TRUE)
              ELSE deduce_group_loop_store_empty(cells, group, k + 1, confirmedMask, changed)

RECURSIVE deduce_group_loop(_, _, _, _, _)
deduce_group_loop(cells, group, k, confirmedMask, changed) ==
  IF k > 9 THEN [cells |-> cells, changed |-> changed, empty |-> FALSE]
  ELSE
    LET c  == group[k]
        st == cells[c]
    IN  IF isConfirmed(st)
        THEN deduce_group_loop(cells, group, k + 1, confirmedMask, changed)
        ELSE
          LET mask == possibleMask(st) \ confirmedMask
          IN  IF mask = {}
              THEN [cells |-> cells, changed |-> FALSE, empty |-> TRUE]
              ELSE IF Cardinality(mask) <= 1
              THEN deduce_group_loop([cells EXCEPT ![c] = mask \cup {0}], group,
                                     k + 1, confirmedMask \cup mask, TRUE)
              ELSE IF mask # possibleMask(st)
              THEN deduce_group_loop([cells EXCEPT ![c] = mask], group,
                                     k + 1, confirmedMask, TRUE)
              ELSE deduce_group_loop(cells, group, k + 1, confirmedMask, changed)

deduce_group(cells, group) ==
  deduce_group_loop(cells, group, 1, confirmedMaskOf(cells, group), FALSE)

\* The 27 groups in the order deduce_once and check_initial_valid visit them.
GroupAt(n) ==
  LET i == n \div 3
  IN  CASE n % 3 = 0 -> get_row(i)
        [] n % 3 = 1 -> get_col(i)
        [] OTHER     -> get_box(i)

\* `changed |= deduce_group(...)` over the 27 groups.
RECURSIVE deduce_once_loop(_, _, _, _)
deduce_once_loop(cells, n, changed, empty) ==
  IF n >= 27 THEN [cells |-> cells, changed |-> changed, empty |-> empty]
  ELSE LET g == deduce_group(cells, GroupAt(n))
       IN  IF g.changed
           THEN deduce_once_loop(g.cells, n + 1, TRUE, empty \/ g.empty)
           ELSE deduce_once_loop(g.cells, n + 1, changed, empty \/ g.empty)

deduce_once(cells) == deduce_once_loop(cells, 0, FALSE, FALSE)

RECURSIVE deduce_full_loop(_, _)
deduce_full_loop(cells, empty) ==
  LET o == deduce_once(cells)
  IN  IF o.changed THEN deduce_full_loop(o.cells, empty \/ o.empty)
      ELSE [cells |-> o.cells,
            ok    |-> \A i \in Cells : isValid(o.cells[i]),
            empty |-> empty \/ o.empty]

deduce_full(cells) == deduce_full_loop(cells, FALSE)

is_solved(cells) == \A i \in Cells : isConfirmed(cells[i])

popcount16(x) == Cardinality(x)

\* Variant: the confirmed cells are candidates for the branch cell too.
target_of_any_cell(cells) ==
  LET U == { i \in Cells : popcount16(possibleMask(cells[i])) < 10 }
      n(i) == popcount16(possibleMask(cells[i]))
  IN  IF U = {} THEN -2
      ELSE CHOOSE i \in U : \A j \in U : n(i) < n(j) \/ (n(i) = n(j) /\ i <= j)

\* The branch cell: fewest candidates, lowest index first; -2 if there is none.
target_of(cells) ==
  LET U == { i \in Cells : ~isConfirmed(cells[i])
                           /\ popcount16(possibleMask(cells[i])) < 10 }
      n(i) == popcount16(possibleMask(cells[i]))
  IN  IF U = {} THEN -2
      ELSE CHOOSE i \in U : \A j \in U : n(i) < n(j) \/ (n(i) = n(j) /\ i <= j)

inner_solve(cells) ==
  LET f == deduce_full(cells)
  IN  [cells |-> f.cells,
       empty |-> f.empty,
       res   |-> IF ~f.ok THEN -2
                 ELSE IF is_solved(f.cells) THEN -1
                 ELSE target_of(f.cells)]

check_unit(cells, group) ==
  \A k \in 1 .. 9 :
    isConfirmed(cells[group[k]]) =>
      \A j \in 1 .. k - 1 :
        isConfirmed(cells[group[j]]) =>
          possibleMask(cells[group[j]]) \cap possibleMask(cells[group[k]]) = {}

\* Variant: the boxes are left unchecked.
check_initial_valid_no_box(cells) ==
  \A n \in 0 .. 26 : n % 3 # 2 => check_unit(cells, GroupAt(n))

check_initial_valid(cells) == \A n \in 0 .. 26 : check_unit(cells, GroupAt(n))

load_int8_t(arr) ==
  [i \in Cells |-> IF arr[i] >= 1 /\ arr[i] <= 9 THEN {0, arr[i]} ELSE CandidateBits]

(***************************************************************************)
(* State of one call of sudoku_solver.                                     *)
(***************************************************************************)
VARIABLES
  puzzle,   \* the caller's buffer
  size,     \* the declared length
  input,    \* history: the buffer as it was when the call began
  pc,       \* position in sudoku_solver / solve
  board,    \* `Board board` of sudoku_solver, `root` inside solve
  stack,    \* the frames written so far, by index
  top,      \* index of the current frame
  last,     \* the board most recently run through inner_solve
  res,      \* what that inner_solve returned
  empty,    \* history: whether it met a cell with no candidate left
  calls,    \* history: the functions entered so far
  result    \* the returned string

vars == << puzzle, size, input, pc, board, stack, top, last, res, empty, calls, result >>

NoBoard == [i \in Cells |-> {}]

Init ==
  /\ puzzle \in Inputs
  /\ size \in Sizes
  /\ input = puzzle
  /\ pc = "entry"
  /\ board = NoBoard
  /\ stack = << >>
  /\ top = 0
  /\ last = NoBoard
  /\ res = 0
  /\ empty = FALSE
  /\ calls = {}
  /\ result = ""

WriteBack(cells) == [i \in Cells |-> getConfirmedValue(cells[i])]

Frame(cells, idx) ==
  [board |-> cells, remaining_mask |-> possibleMask(cells[idx]), target_idx |-> idx]

Store(stk, i, f) == [j \in (DOMAIN stk) \cup {i} |-> IF j = i THEN f ELSE stk[j]]

\* Variant: only a buffer that is too short is refused.
bad_size_short(n) == n < 81

\* `if (size != 81)`
bad_size(n) == n # 81

\* Variant: the board is written back whatever solve returned.
buffer_after_always(solved, buf, cells) == WriteBack(cells)

\* `if (solve(board)) { puzzle[i] = ...getConfirmedValue(); }`: the buffer
\* sudoku_solver leaves behind, given what solve returned.
buffer_after(solved, buf, cells) == IF solved THEN WriteBack(cells) ELSE buf

\* sudoku_solver: the length test.
CheckSize ==
  /\ pc = "entry"
  /\ IF bad_size(size)
     THEN /\ result' = "Invalid size"
          /\ pc' = "done"
     ELSE /\ pc' = "load"
          /\ UNCHANGED result
  /\ UNCHANGED << puzzle, size, input, board, stack, top, last, res, empty, calls >>

\* sudoku_solver: load_int8_t, then check_initial_valid.
LoadAndCheck ==
  /\ pc = "load"
  /\ board' = load_int8_t(puzzle)
  /\ calls' = calls \cup {"load_int8_t", "check_initial_valid"}
  /\ IF ~check_initial_valid(board')
     THEN /\ result' = "Invalid puzzle"
          /\ pc' = "done"
     ELSE /\ pc' = "solve"
          /\ UNCHANGED result
  /\ UNCHANGED << puzzle, size, input, stack, top, last, res, empty >>

\* solve: the prologue up to the first test of the while loop.
SolveStart ==
  /\ pc = "solve"
  /\ LET r == inner_solve(board)
     IN  /\ board' = r.cells
         /\ last' = r.cells
         /\ res' = r.res
         /\ empty' = r.empty
         /\ top' = 0
         /\ calls' = calls \cup {"solve", "inner_solve"}
         /\ IF r.res = -1
            THEN /\ puzzle' = buffer_after(TRUE, puzzle, r.cells)
                 /\ result' = "Solved"
                 /\ pc' = "done"
                 /\ UNCHANGED stack
            ELSE IF r.res = -2
            THEN /\ puzzle' = buffer_after(FALSE, puzzle, r.cells)
                 /\ result' = "No solution found"
                 /\ pc' = "done"
                 /\ UNCHANGED stack
            ELSE /\ stack' = Store(stack, 0, Frame(r.cells, r.res))
                 /\ pc' = "loop"
                 /\ UNCHANGED << puzzle, result >>
  /\ UNCHANGED << size, input >>

\* Variant: the exhausted frame is not popped.
Backtrack_keep_top ==
  /\ pc = "loop"
  /\ top >= 0
  /\ stack[top].remaining_mask = {}
  /\ top' = top
  /\ UNCHANGED << puzzle, size, input, pc, board, stack, last, res, empty, calls, result >>

\* solve: one iteration that finds the top frame's mask exhausted.
Backtrack ==
  /\ pc = "loop"
  /\ top >= 0
  /\ stack[top].remaining_mask = {}
  /\ top' = top - 1
  /\ UNCHANGED << puzzle, size, input, pc, board, stack, last, res, empty, calls, result >>

lowest_bit(mask) == CHOOSE b \in mask : \A c \in mask : b <= c

\* solve: one iteration that tries the lowest remaining candidate.
Trial ==
  /\ pc = "loop"
  /\ top >= 0
  /\ stack[top].remaining_mask # {}
  /\ LET frame == stack[top]
         pick  == {lowest_bit(frame.remaining_mask)}
         spent == [stack EXCEPT ![top].remaining_mask = frame.remaining_mask \ pick]
         next  == [frame.board EXCEPT ![frame.target_idx] = pick \cup {0}]
         r     == inner_solve(next)
     IN  /\ last' = r.cells
         /\ res' = r.res
         /\ empty' = r.empty
         /\ calls' = calls \cup {"inner_solve"}
         /\ IF r.res = -1
            THEN /\ board' = r.cells
                 /\ puzzle' = buffer_after(TRUE, puzzle, r.cells)
                 /\ result' = "Solved"
                 /\ pc' = "done"
                 /\ stack' = spent
                 /\ UNCHANGED top
            ELSE IF ~check_initial_valid(r.cells)
            THEN /\ top' = top - 1
                 /\ stack' = spent
                 /\ UNCHANGED << puzzle, pc, board, result >>
            ELSE IF r.res = -2
            THEN /\ stack' = spent
                 /\ UNCHANGED << puzzle, pc, board, top, result >>
            ELSE /\ top' = top + 1
                 /\ stack' = Store(spent, top + 1, Frame(r.cells, r.res))
                 /\ UNCHANGED << puzzle, pc, board, result >>
  /\ UNCHANGED << size, input >>

\* solve: the while test fails; sudoku_solver reports the failure.
Exhausted ==
  /\ pc = "loop"
  /\ top < 0
  /\ puzzle' = buffer_after(FALSE, puzzle, board)
  /\ result' = "No solution found"
  /\ pc' = "done"
  /\ UNCHANGED << size, input, board, stack, top, last, res, empty, calls >>

Next ==
  \/ CheckSize
  \/ LoadAndCheck
  \/ SolveStart
  \/ Backtrack
  \/ Trial
  \/ Exhausted

Spec == Init /\ [][Next]_vars

\* sudoku_solver is one sequential call: while a step is possible, one is taken.
\* SolveStart and Trial change pc or the stack whenever their guard holds, so for
\* them weak fairness is written with the guard in the place of ENABLED.
LiveSpec ==
  /\ Spec
  /\ WF_vars(CheckSize)
  /\ WF_vars(LoadAndCheck)
  /\ ([]<>(pc # "solve") \/ []<><<SolveStart>>_vars)
  /\ WF_vars(Backtrack)
  /\ ([]<>(~(pc = "loop" /\ top >= 0 /\ stack[top].remaining_mask # {})) \/ []<><<Trial>>_vars)
  /\ WF_vars(Exhausted)

(***************************************************************************)
(* Vocabulary of the properties, stated on grids of digits and             *)
(* independently of the Board operations above.                            *)
(***************************************************************************)
Digits == 1 .. 9

Rows  == { { i \in Cells : i \div 9 = r } : r \in 0 .. 8 }
Cols  == { { i \in Cells : i % 9 = c } : c \in 0 .. 8 }
Boxes == { { i \in Cells : (i \div 27) * 3 + ((i % 9) \div 3) = b } : b \in 0 .. 8 }
Units == Rows \cup Cols \cup Boxes

DuplicateIn(g, U) == \E i, j \in U : i # j /\ g[i] \in Digits /\ g[i] = g[j]

HasDuplicate(g) == \E U \in Units : DuplicateIn(g, U)

ValidGrid(g) ==
  \A U \in Units : \A d \in Digits : Cardinality({ i \in U : g[i] = d }) = 1

GivensKept(in, out) == \A i \in Cells : in[i] \in Digits => out[i] = in[i]

\* Whether the givens of g extend to a valid grid: exhaustive search, filling the
\* first empty cell with every digit its units allow.
RECURSIVE Completable(_)
Completable(g) ==
  LET E == { i \in Cells : g[i] \notin Digits }
  IN  IF E = {} THEN ValidGrid(g)
      ELSE LET i == CHOOSE x \in E : \A y \in E : x <= y
               free == { d \in Digits :
                           \A U \in Units : i \in U => \A j \in U : g[j] # d }
           IN  \E d \in free : Completable([g EXCEPT ![i] = d])

Returned == pc = "done"

(***************************************************************************)
(* C1.  Whenever the result is "Solved", the buffer holds a grid in which  *)
(* every row, column and block has each digit 1..9 exactly once, and every *)
(* given digit of the input is unchanged.                                  *)
(***************************************************************************)
C1_SolvedGridIsValid ==
  (Returned /\ result = "Solved") => (ValidGrid(puzzle) /\ GivensKept(input, puzzle))

(***************************************************************************)
(* C2.  For an 81-cell input without duplicate givens, "No solution found" *)
(* is reported only when the givens have no valid completion, and          *)
(* "Solved" whenever they have one.                                        *)
(***************************************************************************)
C2_SearchIsComplete ==
  (Returned /\ size = 81 /\ ~HasDuplicate(input)) =>
    /\ result = "No solution found" => ~Completable(input)
    /\ Completable(input) => result = "Solved"

(***************************************************************************)
(* C3.  An 81-cell input without duplicate givens and without a valid      *)
(* completion yields "No solution found", never "Solved" and never         *)
(* "Invalid puzzle".                                                       *)
(***************************************************************************)
C3_UnsatisfiableIsNoSolution ==
  (Returned /\ size = 81 /\ ~HasDuplicate(input) /\ ~Completable(input)) =>
    result = "No solution found"

(***************************************************************************)
(* C4.  An 81-cell input with two equal given digits in a row, column or   *)
(* block yields "Invalid puzzle", and neither solve nor inner_solve is     *)
(* ever entered and no frame is ever written.                              *)
(***************************************************************************)
C4_DuplicateGivensRejected ==
  (size = 81 /\ HasDuplicate(input)) =>
    /\ "solve" \notin calls
    /\ "inner_solve" \notin calls
    /\ DOMAIN stack = {}
    /\ Returned => result = "Invalid puzzle"

C4_Witness ==
  /\ Returned
  /\ size = 81
  /\ \E U \in Boxes : DuplicateIn(input, U)
  /\ ~ \E U \in Rows \cup Cols : DuplicateIn(input, U)
  /\ result = "Invalid puzzle"

(***************************************************************************)
(* C5.  A declared length other than 81 yields "Invalid size" whatever the *)
(* buffer holds, before any board is loaded or checked.                    *)
(***************************************************************************)
C5_WrongLengthRejected ==
  size # 81 =>
    /\ calls = {}
    /\ board = NoBoard
    /\ pc \in {"entry", "done"}
    /\ Returned => result = "Invalid size"

C5_Witness ==
  /\ Returned
  /\ size # 81
  /\ HasDuplicate(input)
  /\ result = "Invalid size"

(***************************************************************************)
(* C6.  Unless the result is "Solved", every cell of the caller's buffer   *)
(* holds the value it held when the call began.                            *)
(***************************************************************************)
C6_BufferWrittenOnlyOnSuccess == result # "Solved" => puzzle = input

C6_Witness ==
  /\ Returned
  /\ result = "No solution found"
  /\ \E i \in Cells : input[i] \notin Digits /\ isConfirmed(board[i])
  /\ puzzle = input

(***************************************************************************)
(* C7.  An input whose 81 cells hold digits 1..9 without duplicate yields  *)
(* "Solved" with the buffer unchanged, and no frame is ever written to the *)
(* search stack.                                                           *)
(***************************************************************************)
C7_SolvedInputUnchanged ==
  (size = 81 /\ ValidGrid(input)) =>
    /\ DOMAIN stack = {}
    /\ puzzle = input
    /\ Returned => result = "Solved"

C7_Witness ==
  /\ Returned
  /\ size = 81
  /\ ValidGrid(input)
  /\ result = "Solved"
  /\ puzzle = input

(***************************************************************************)
(* C8.  A loop iteration whose trial board fails check_initial_valid       *)
(* leaves the stack height unchanged and keeps the candidates still set in *)
(* the top frame's remaining mask.                                         *)
(***************************************************************************)
C8_ConflictKeepsDepth ==
  [][ ( /\ pc = "loop" /\ pc' = "loop"
        /\ top >= 0
        /\ stack[top].remaining_mask # {}
        /\ ~check_initial_valid(last') )
      => ( /\ top' = top
           /\ stack'[top'].remaining_mask =
                stack[top].remaining_mask \ {lowest_bit(stack[top].remaining_mask)} )
    ]_vars

(***************************************************************************)
(* C9.  If deduce_group met, during the deduce_full of an inner_solve, an  *)
(* unconfirmed cell left with no candidate, that inner_solve returned the  *)
(* contradiction sentinel -2.                                              *)
(***************************************************************************)
C9_EmptyCellIsContradiction ==
  ("inner_solve" \in calls /\ empty) => res = -2

(***************************************************************************)
(* C10.  When deduce_full reports success, one further deduce_once changes *)
(* no cell of the board.                                                   *)
(***************************************************************************)
C10_DeduceFullIsFixpoint ==
  ("inner_solve" \in calls /\ res # -2) => deduce_once(last).cells = last

(***************************************************************************)
(* Vocabulary of the properties about the boards of a solve.               *)
(***************************************************************************)
\* A cell state that is neither 0 nor the bare confirmed flag and that, when
\* confirmed, has exactly one candidate bit.
CellOK(state) ==
  /\ state # {}
  /\ state # {0}
  /\ 0 \in state => Cardinality(state \cap CandidateBits) = 1

BoardOK(cells) == \A i \in Cells : CellOK(cells[i])

\* Whether the board left by each deduce_group call of one deduce_once pass over
\* cells has only valid cells, the groups taken in the order of deduce_once.
RECURSIVE PassStepsOK(_, _)
PassStepsOK(cells, n) ==
  IF n >= 27 THEN TRUE
  ELSE LET g == deduce_group(cells, GroupAt(n))
       IN  IF BoardOK(g.cells) THEN PassStepsOK(g.cells, n + 1) ELSE FALSE

\* The same for every pass of deduce_full(cells), until one reports no change.
RECURSIVE DeduceStepsOK(_)
DeduceStepsOK(cells) ==
  IF ~PassStepsOK(cells, 0) THEN FALSE
  ELSE LET o == deduce_once(cells)
       IN  IF o.changed THEN DeduceStepsOK(o.cells) ELSE TRUE

\* The board the next loop iteration of solve hands to inner_solve.
TrialPending == pc = "loop" /\ top >= 0 /\ stack[top].remaining_mask # {}

TrialBoard ==
  LET frame == stack[top]
  IN  [frame.board EXCEPT ![frame.target_idx] = {lowest_bit(frame.remaining_mask), 0}]

(***************************************************************************)
(* C11.  Every board of a solve has only valid cells: the loaded board,    *)
(* the board after each deduce_group step, every trial board and every     *)
(* frame snapshot.  No cell state is 0, none is the bare confirmed flag,   *)
(* and every confirmed cell has exactly one candidate bit among 1..9.      *)
(***************************************************************************)
C11_CellsStayValid ==
  /\ "load_int8_t" \in calls => BoardOK(board)
  /\ "inner_solve" \in calls => BoardOK(last)
  /\ \A i \in DOMAIN stack : BoardOK(stack[i].board)
  /\ pc = "solve" => DeduceStepsOK(board)
  /\ TrialPending =>
       /\ BoardOK(TrialBoard)
       /\ DeduceStepsOK(TrialBoard)

\* A trial below the root frame whose propagation met a cell with no candidate
\* left, and a further trial pending.
C11_Witness ==
  /\ TrialPending
  /\ top >= 1
  /\ empty
  /\ BoardOK(last)
  /\ BoardOK(TrialBoard)
  /\ DeduceStepsOK(TrialBoard)

\* `sizeof(Frame)` units allocated for the stack: the frames 0..80.
Capacity == 81

Unconfirmed(cells) == Cardinality({ i \in Cells : ~isConfirmed(cells[i]) })

(***************************************************************************)
(* C12.  At every step of the search the stack holds at most 81 frames:    *)
(* top stays within -1..80, every frame read or written lies inside the    *)
(* 81-frame buffer and has been written before it is read, and each frame  *)
(* on the stack has strictly fewer unconfirmed cells than the frame below. *)
(***************************************************************************)
C12_StackWithinCapacity ==
  /\ top \in -1 .. Capacity - 1
  /\ DOMAIN stack \subseteq 0 .. Capacity - 1
  /\ (pc = "loop" /\ top >= 0) => 0 .. top \subseteq DOMAIN stack
  /\ pc = "loop" =>
       \A i \in 1 .. top :
         Unconfirmed(stack[i].board) < Unconfirmed(stack[i - 1].board)

\* The search of the all-empty board, more than half of the buffer in use.
C12_Witness ==
  /\ pc = "loop"
  /\ top > Capacity \div 2
  /\ 0 .. top \subseteq DOMAIN stack
  /\ Unconfirmed(stack[0].board) = Capacity
  /\ \A i \in 1 .. top :
       Unconfirmed(stack[i].board) < Unconfirmed(stack[i - 1].board)

\* a is b with some candidate removed or some cell confirmed, and nothing else.
Below(a, b) ==
  /\ a # b
  /\ \A i \in Cells :
       /\ possibleMask(a[i]) \subseteq possibleMask(b[i])
       /\ isConfirmed(b[i]) => a[i] = b[i]

\* Whether every deduce_once pass of deduce_full(cells) that reports a change
\* leaves a board below the one it started from.
RECURSIVE PassesDescend(_)
PassesDescend(cells) ==
  LET o == deduce_once(cells)
  IN  IF ~o.changed THEN TRUE
      ELSE IF Below(o.cells, cells) THEN PassesDescend(o.cells)
      ELSE FALSE

\* The rank of frame i of a stack stk with top t: one more than the number of
\* candidates still to try, and 0 for an index above top.
RankAt(stk, t, i) ==
  IF i <= t /\ i \in DOMAIN stk THEN Cardinality(stk[i].remaining_mask) + 1 ELSE 0

\* The ranks of (stk2, t2) come before those of (stk1, t1) in lexicographic order.
LexLess(stk2, t2, stk1, t1) ==
  \E i \in 0 .. Capacity - 1 :
    /\ RankAt(stk2, t2, i) < RankAt(stk1, t1, i)
    /\ \A j \in 0 .. i - 1 : RankAt(stk2, t2, j) = RankAt(stk1, t1, j)

(***************************************************************************)
(* C13.  For every 81-cell input solving terminates.  Every deduce_once    *)
(* pass of a deduce_full that reports a change strictly shrinks the board, *)
(* so a pass without change is reached; every iteration of the search loop *)
(* that stays in the loop lowers the ranks of the frames in lexicographic  *)
(* order; and the search loop, once entered, eventually ends, either with  *)
(* "Solved" or with the stack empty.                                       *)
(***************************************************************************)
C13_SolveTerminates ==
  /\ [](pc = "solve" => PassesDescend(board))
  /\ [](TrialPending => PassesDescend(TrialBoard))
  /\ [][(pc = "loop" /\ pc' = "loop") => LexLess(stack', top', stack, top)]_vars
  /\ (size = 81 ~> Returned)
  /\ (pc = "loop" ~> (Returned /\ (result = "Solved" \/ top = -1)))

\* A search loop that was entered and ended with the stack empty.
C13_Witness ==
  /\ Returned
  /\ size = 81
  /\ 0 \in DOMAIN stack
  /\ top = -1
  /\ result = "No solution found"

====
